---------------------------- MODULE Spec2Model ----------------------------
(***************************************************************************)
(* A model of the MemeTrader paper-trading simulator:                      *)
(*   - utils/test_wallet.py     TestWallet (paper wallet bookkeeping)      *)
(*   - agents/trading_agents.py TradingAgents (_rate_limited_invoke, the   *)
(*                              six pipeline stages, execute_trades)       *)
(*   - main.py / frontend.py    the drivers applying executed_trades       *)
(*   - utils/state_manager.py   StateManager (JSON state file)             *)
(*                                                                         *)
(* Python floats are modelled as exact rationals <<numerator, denominator>>*)
(* in lowest terms with a positive denominator, so that equality of two    *)
(* amounts is equality of the tuples.                                      *)
(***************************************************************************)
EXTENDS Integers, Sequences, FiniteSets, TLC

VARIABLES
    wallet,     \* the TestWallet object
    lastCall,   \* the last TestWallet call made: its arguments and result
    agent,      \* the MarketState dict travelling through the pipeline
    run,        \* position of the pipeline / of execute_trades
    pace,       \* chain invocations and sleeps of the TradingAgents instance
    sm          \* StateManager objects and the files they work on

vars == <<wallet, lastCall, agent, run, pace, sm>>

---------------------------------------------------------------------------
(* Bounds of the model *)

\* longest trade_history a wallet is driven to
MaxHistory == 3

---------------------------------------------------------------------------
(* Exact arithmetic standing for Python's float arithmetic *)

Abs(n) == IF n < 0 THEN -n ELSE n

RECURSIVE Gcd(_, _)
Gcd(a, b) == IF b = 0 THEN a ELSE Gcd(b, a % b)

Norm(n, d) ==
    LET s == IF d < 0 THEN -1 ELSE 1
        g == Gcd(Abs(n), Abs(d))
    IN  <<(s * n) \div g, (s * d) \div g>>

Num(n) == <<n, 1>>
Zero == Num(0)

RAdd(x, y) == Norm(x[1] * y[2] + y[1] * x[2], x[2] * y[2])
RSub(x, y) == Norm(x[1] * y[2] - y[1] * x[2], x[2] * y[2])
RMul(x, y) == Norm(x[1] * y[1], x[2] * y[2])
RDiv(x, y) == Norm(x[1] * y[2], x[2] * y[1])
RLt(x, y) == x[1] * y[2] < y[1] * x[2]
RLe(x, y) == x[1] * y[2] <= y[1] * x[2]
RGt(x, y) == RLt(y, x)
RGe(x, y) == RLe(y, x)

---------------------------------------------------------------------------
(* config/config.py *)

\* MIN_PURCHASE_AMOUNT = 5.0
MIN_PURCHASE_AMOUNT == 5
\* INITIAL_BALANCE = 20.0
INITIAL_BALANCE == 20
\* TARGET_BALANCE = 100.0
TARGET_BALANCE == 100

---------------------------------------------------------------------------
(* utils/test_wallet.py : Trade and TestWallet *)

WalletSymbols == {"BTCUSDT", "DOGEUSDT"}

NoPnl == [has |-> FALSE, val |-> Zero]
SomePnl(v) == [has |-> TRUE, val |-> v]

\* Trade(timestamp, symbol, type, amount, price, total, profit_loss=None);
\* the timestamp is left out.
Trade(symbol, type, amount, price, total, profit_loss) ==
    [symbol |-> symbol, type |-> type, amount |-> amount, price |-> price,
     total |-> total, profit_loss |-> profit_loss]

\* TestWallet.__init__
NewWallet(initial_balance, target_balance) ==
    [initial_balance |-> initial_balance,
     target_balance  |-> target_balance,
     balance         |-> initial_balance,
     positions       |-> <<>>,
     trade_history   |-> <<>>,
     initialized     |-> FALSE]

\* the mutant of Put: the dict is replaced by one holding the item alone
PutAlone(d, k, v) == [x \in {k} |-> v]

\* dict assignment d[k] = v
Put(d, k, v) == [x \in DOMAIN d \cup {k} |-> IF x = k THEN v ELSE d[x]]
\* del d[k]
Del(d, k) == [x \in DOMAIN d \ {k} |-> d[x]]

\* the mutant of InitializeWithBtc: _initialized is not looked at
InitializeWithBtcEveryTime(w, btc_price) ==
    IF RGe(w.balance, Num(MIN_PURCHASE_AMOUNT))
    THEN LET btc_amount == RDiv(RMul(w.balance, <<1, 2>>), btc_price)
         IN  [w EXCEPT
                !.balance = RSub(w.balance, RMul(btc_amount, btc_price)),
                !.positions = Put(w.positions, "BTCUSDT",
                                  [amount |-> btc_amount, entry_price |-> btc_price]),
                !.trade_history = Append(w.trade_history,
                    Trade("BTCUSDT", "buy", btc_amount, btc_price,
                          RMul(btc_amount, btc_price), NoPnl)),
                !.initialized = TRUE]
    ELSE w

\* a dict that has not the keys gone
Without(st, gone) == [k \in DOMAIN st \ gone |-> st[k]]

\* TestWallet.initialize_with_btc
InitializeWithBtc(w, btc_price) ==
    IF ~w.initialized /\ RGe(w.balance, Num(MIN_PURCHASE_AMOUNT))
    THEN LET btc_amount == RDiv(RMul(w.balance, <<1, 2>>), btc_price)
         IN  [w EXCEPT
                !.balance = RSub(w.balance, RMul(btc_amount, btc_price)),
                !.positions = Put(w.positions, "BTCUSDT",
                                  [amount |-> btc_amount, entry_price |-> btc_price]),
                !.trade_history = Append(w.trade_history,
                    Trade("BTCUSDT", "buy", btc_amount, btc_price,
                          RMul(btc_amount, btc_price), NoPnl)),
                !.initialized = TRUE]
    ELSE w

\* the mutant of BuyRejected: the balance check is left out
BuyRejectedNoBalanceCheck(w, total_cost) ==
    RLt(total_cost, Num(MIN_PURCHASE_AMOUNT))

\* the mutant of BuyRejected: the minimum purchase amount is not enforced
BuyRejectedNoMinimum(w, total_cost) == RGt(total_cost, w.balance)

\* TestWallet.buy, the two early returns
BuyRejected(w, total_cost) ==
    \/ RLt(total_cost, Num(MIN_PURCHASE_AMOUNT))
    \/ RGt(total_cost, w.balance)

\* TestWallet.buy: the new wallet and the value returned
WalletBuy(w, symbol, amount, price) ==
    LET total_cost == RMul(amount, price)
    IN  IF BuyRejected(w, total_cost)
        THEN [w |-> w, ok |-> FALSE]
        ELSE
          IF symbol \in DOMAIN w.positions
          THEN LET current_position == w.positions[symbol]
                   total_amount == RAdd(current_position.amount, amount)
                   \* total_cost is reassigned: the position's whole cost
                   total_cost2 == RAdd(RMul(current_position.amount,
                                            current_position.entry_price),
                                       total_cost)
               IN  [w |-> [w EXCEPT
                        !.balance = RSub(w.balance, total_cost),
                        !.positions = Put(w.positions, symbol,
                            [current_position EXCEPT
                               !.entry_price = RDiv(total_cost2, total_amount),
                               !.amount = total_amount]),
                        !.trade_history = Append(w.trade_history,
                            Trade(symbol, "buy", amount, price, total_cost2, NoPnl))],
                    ok |-> TRUE]
          ELSE [w |-> [w EXCEPT
                        !.balance = RSub(w.balance, total_cost),
                        !.positions = Put(w.positions, symbol,
                            [amount |-> amount, entry_price |-> price]),
                        !.trade_history = Append(w.trade_history,
                            Trade(symbol, "buy", amount, price, total_cost, NoPnl))],
                ok |-> TRUE]

\* the mutant of SellRejected: a sell of more than is held goes through
SellRejectedNoHoldingCheck(w, symbol, amount) ==
    symbol \notin DOMAIN w.positions

\* TestWallet.sell, the two early returns
SellRejected(w, symbol, amount) ==
    \/ symbol \notin DOMAIN w.positions
    \/ RGt(amount, w.positions[symbol].amount)

\* the mutant of SellProfitLoss: the proceeds are recorded as the profit
SellProfitLossProceeds(amount, price, entry_price) ==
    RMul(amount, price)

\* TestWallet.sell: profit_loss = total_value - (amount * position['entry_price'])
SellProfitLoss(amount, price, entry_price) ==
    RSub(RMul(amount, price), RMul(amount, entry_price))

\* the mutant of WalletSell: the amount is taken off the position before it
\* is compared with the holding
WalletSellDeductsFirst(w, symbol, amount, price) ==
    IF symbol \notin DOMAIN w.positions
    THEN [w |-> w, ok |-> FALSE]
    ELSE LET position == w.positions[symbol]
             total_value == RMul(amount, price)
             profit_loss == SellProfitLoss(amount, price, position.entry_price)
             left == RSub(position.amount, amount)
             taken == Put(w.positions, symbol, [position EXCEPT !.amount = left])
         IN  IF RLt(left, Zero)
             THEN [w |-> [w EXCEPT !.positions = taken], ok |-> FALSE]
             ELSE [w |-> [w EXCEPT
                      !.balance = RAdd(w.balance, total_value),
                      !.positions = IF left = Zero
                                    THEN Del(w.positions, symbol) ELSE taken,
                      !.trade_history = Append(w.trade_history,
                          Trade(symbol, "sell", amount, price, total_value,
                                SomePnl(profit_loss)))],
                   ok |-> TRUE]

\* TestWallet.sell: the new wallet and the value returned
WalletSell(w, symbol, amount, price) ==
    IF SellRejected(w, symbol, amount)
    THEN [w |-> w, ok |-> FALSE]
    ELSE LET position == w.positions[symbol]
             total_value == RMul(amount, price)
             profit_loss == SellProfitLoss(amount, price, position.entry_price)
             left == RSub(position.amount, amount)
         IN  [w |-> [w EXCEPT
                  !.balance = RAdd(w.balance, total_value),
                  !.positions =
                      IF left = Zero
                      THEN Del(w.positions, symbol)
                      ELSE Put(w.positions, symbol,
                               [position EXCEPT !.amount = left]),
                  !.trade_history = Append(w.trade_history,
                      Trade(symbol, "sell", amount, price, total_value,
                            SomePnl(profit_loss)))],
              ok |-> TRUE]

\* TestWallet.get_total_value; a price of None (a failed quote) is left out
\* of prices' domain
RECURSIVE SumOver(_, _, _)
SumOver(S, positions, prices) ==
    IF S = {} THEN Zero
    ELSE LET s == CHOOSE x \in S : TRUE
         IN  RAdd(IF s \in DOMAIN prices
                  THEN RMul(positions[s].amount, prices[s]) ELSE Zero,
                  SumOver(S \ {s}, positions, prices))

GetTotalValue(w, prices) ==
    RAdd(w.balance, SumOver(DOMAIN w.positions, w.positions, prices))

\* TestWallet.get_performance_summary: sum(trade.profit_loss or 0 ...)
RECURSIVE SumProfitLoss(_)
SumProfitLoss(trade_history) ==
    IF trade_history = <<>> THEN Zero
    ELSE RAdd(IF Head(trade_history).profit_loss.has
              THEN Head(trade_history).profit_loss.val ELSE Zero,
              SumProfitLoss(Tail(trade_history)))

TotalProfitLoss(w) == SumProfitLoss(w.trade_history)

---------------------------------------------------------------------------
(* The wallet driven alone: any sequence of initialize_with_btc, buy, sell *)

InitialBalances == {Zero, Num(4), Num(INITIAL_BALANCE)}
CallAmounts == {Num(1), Num(2), Num(3)}
CallPrices == {Num(2), Num(5)}

NoCall == [op |-> "none", symbol |-> "", amount |-> Zero, price |-> Zero, ok |-> FALSE]

Idle == /\ agent = <<>>
        /\ run = <<>>
        /\ pace = <<>>
        /\ sm = <<>>

InitWallet ==
    /\ \E b \in InitialBalances : wallet = NewWallet(b, Num(TARGET_BALANCE))
    /\ lastCall = NoCall
    /\ Idle

CallInitializeWithBtc ==
    /\ Len(wallet.trade_history) < MaxHistory
    /\ \E p \in CallPrices :
         /\ wallet' = InitializeWithBtc(wallet, p)
         /\ lastCall' = [op |-> "initialize_with_btc", symbol |-> "BTCUSDT",
                         amount |-> Zero, price |-> p,
                         ok |-> wallet' # wallet]
    /\ UNCHANGED <<agent, run, pace, sm>>

CallBuy ==
    /\ Len(wallet.trade_history) < MaxHistory
    /\ \E s \in WalletSymbols, a \in CallAmounts, p \in CallPrices :
         LET r == WalletBuy(wallet, s, a, p)
         IN  /\ wallet' = r.w
             /\ lastCall' = [op |-> "buy", symbol |-> s, amount |-> a,
                             price |-> p, ok |-> r.ok]
    /\ UNCHANGED <<agent, run, pace, sm>>

CallSell ==
    /\ Len(wallet.trade_history) < MaxHistory
    /\ \E s \in WalletSymbols, a \in CallAmounts, p \in CallPrices :
         LET r == WalletSell(wallet, s, a, p)
         IN  /\ wallet' = r.w
             /\ lastCall' = [op |-> "sell", symbol |-> s, amount |-> a,
                             price |-> p, ok |-> r.ok]
    /\ UNCHANGED <<agent, run, pace, sm>>

NextWallet == CallInitializeWithBtc \/ CallBuy \/ CallSell

SpecWallet == InitWallet /\ [][NextWallet]_vars

---------------------------------------------------------------------------
(* Claims about TestWallet *)

\* what the positions S cost: the sum of amount * entry_price
RECURSIVE C22_CostBasis(_, _)
C22_CostBasis(S, positions) ==
    IF S = {} THEN Zero
    ELSE LET s == CHOOSE x \in S : TRUE
         IN  RAdd(RMul(positions[s].amount, positions[s].entry_price),
                  C22_CostBasis(S \ {s}, positions))

\* C22: after any sequence of initialize_with_btc, buy and sell calls the
\* balance plus what the positions cost (amount * entry_price each) equals
\* the initial balance plus the profit_loss of the sells in trade_history.
C22_CostBasisConserved ==
    RAdd(wallet.balance, C22_CostBasis(DOMAIN wallet.positions, wallet.positions))
      = RAdd(wallet.initial_balance, TotalProfitLoss(wallet))

\* C24: every Trade in trade_history has total = amount * price, be it of
\* initialize_with_btc, of a sell, of a buy that opened a position or of a
\* buy that added to one.
C24_TradeTotalIsAmountTimesPrice ==
    \A i \in DOMAIN wallet.trade_history :
        LET trade == wallet.trade_history[i]
        IN  trade.total = RMul(trade.amount, trade.price)

\* C1: the balance of a TestWallet is never negative, whatever sequence of
\* initialize_with_btc, buy and sell calls (accepted or rejected) was made.
C1_BalanceNeverNegative == RGe(wallet.balance, Zero)

\* a buy that spent the whole balance went through
C1_Witness ==
    /\ lastCall.op = "buy" /\ lastCall.ok
    /\ wallet.balance = Zero
    /\ \E i \in DOMAIN wallet.trade_history : wallet.trade_history[i].type = "sell"

\* C2: every position held has amount > 0; a sell of more than is held is
\* rejected and changes nothing; a sell of exactly the held amount removes
\* the symbol from positions.
C2_NoNonPositivePosition ==
    [][ /\ \A s \in DOMAIN wallet'.positions :
             RGt(wallet'.positions[s].amount, Zero)
        /\ (lastCall'.op = "sell" /\ lastCall'.symbol \in DOMAIN wallet.positions) =>
             LET held == wallet.positions[lastCall'.symbol].amount
             IN  /\ RGt(lastCall'.amount, held) =>
                      ~lastCall'.ok /\ wallet' = wallet
                 /\ lastCall'.amount = held =>
                      lastCall'.ok /\ lastCall'.symbol \notin DOMAIN wallet'.positions
      ]_vars

\* a position was sold down to nothing and is gone, another is still held
C2_Witness ==
    /\ lastCall.op = "sell" /\ lastCall.ok
    /\ lastCall.symbol \notin DOMAIN wallet.positions
    /\ DOMAIN wallet.positions # {}

\* C9: a successful sell appends exactly one Trade whose profit_loss is
\* amount * (price - entry_price), the entry price being the position's just
\* before the sale; Trades of buy and initialize_with_btc carry no profit_loss.
C9_SellRecordsRealizedPnl ==
    [][ /\ (lastCall'.op = "sell" /\ lastCall'.ok) =>
             LET h == wallet'.trade_history
                 entry == wallet.positions[lastCall'.symbol].entry_price
             IN  /\ Len(h) = Len(wallet.trade_history) + 1
                 /\ SubSeq(h, 1, Len(h) - 1) = wallet.trade_history
                 /\ h[Len(h)].type = "sell"
                 /\ h[Len(h)].profit_loss =
                        SomePnl(RMul(lastCall'.amount,
                                     RSub(lastCall'.price, entry)))
        /\ \A i \in DOMAIN wallet'.trade_history :
             wallet'.trade_history[i].type = "buy" =>
                 ~wallet'.trade_history[i].profit_loss.has
      ]_vars

\* a sale at a loss out of a position bought in two lots at different prices
C9_Witness ==
    /\ lastCall.op = "sell" /\ lastCall.ok
    /\ LET h == wallet.trade_history
       IN  /\ Len(h) = 3
           /\ h[1].type = "buy" /\ h[2].type = "buy"
           /\ h[1].symbol = h[3].symbol /\ h[2].symbol = h[3].symbol
           /\ h[1].price # h[2].price
           /\ RLt(h[3].profit_loss.val, Zero)

\* C14: a buy whose cost amount * price is below MIN_PURCHASE_AMOUNT returns
\* False, and the Trade a buy records has amount * price >= MIN_PURCHASE_AMOUNT.
C14_MinimumPurchaseEnforced ==
    [][ lastCall'.op = "buy" =>
          /\ RLt(RMul(lastCall'.amount, lastCall'.price), Num(MIN_PURCHASE_AMOUNT))
                => ~lastCall'.ok
          /\ lastCall'.ok =>
                LET h == wallet'.trade_history
                IN  /\ Len(h) = Len(wallet.trade_history) + 1
                    /\ h[Len(h)].type = "buy"
                    /\ RGe(RMul(h[Len(h)].amount, h[Len(h)].price),
                           Num(MIN_PURCHASE_AMOUNT))
      ]_vars

\* a buy the balance would have paid for was turned down for its cost alone
C14_Witness ==
    /\ lastCall.op = "buy" /\ ~lastCall.ok
    /\ RLt(RMul(lastCall.amount, lastCall.price), Num(MIN_PURCHASE_AMOUNT))
    /\ RGe(wallet.balance, RMul(lastCall.amount, lastCall.price))

\* C15: buy returns False exactly when the cost is below the minimum or above
\* the balance, sell exactly when the symbol is not held or the amount exceeds
\* the holding; a call returning False leaves balance, positions and
\* trade_history as they were; a call returning True appends exactly one Trade.
C15_RejectedCallsChangeNothing ==
    [][ lastCall'.op \in {"buy", "sell"} =>
          /\ lastCall'.op = "buy" =>
                (~lastCall'.ok <=>
                   LET cost == RMul(lastCall'.amount, lastCall'.price)
                   IN  \/ RLt(cost, Num(MIN_PURCHASE_AMOUNT))
                       \/ RGt(cost, wallet.balance))
          /\ lastCall'.op = "sell" =>
                (~lastCall'.ok <=>
                   \/ lastCall'.symbol \notin DOMAIN wallet.positions
                   \/ RGt(lastCall'.amount,
                          wallet.positions[lastCall'.symbol].amount))
          /\ ~lastCall'.ok =>
                /\ wallet'.balance = wallet.balance
                /\ wallet'.positions = wallet.positions
                /\ wallet'.trade_history = wallet.trade_history
          /\ lastCall'.ok =>
                /\ Len(wallet'.trade_history) = Len(wallet.trade_history) + 1
                /\ SubSeq(wallet'.trade_history, 1, Len(wallet.trade_history))
                      = wallet.trade_history
                /\ wallet'.trade_history[Len(wallet'.trade_history)].symbol
                      = lastCall'.symbol
                /\ wallet'.trade_history[Len(wallet'.trade_history)].type
                      = lastCall'.op
      ]_vars

\* a sell of more than is held was turned down in a wallet that has traded,
\* after a buy that took the whole balance
C15_Witness ==
    /\ lastCall.op = "sell" /\ ~lastCall.ok
    /\ lastCall.symbol \in DOMAIN wallet.positions
    /\ wallet.balance = Zero
    /\ Len(wallet.trade_history) >= 2

C17_BuyAveragesEntryPrice ==
    [][ (lastCall'.op = "buy" /\ lastCall'.ok) =>
          LET s == lastCall'.symbol
              a == lastCall'.amount
              p == lastCall'.price
          IN  /\ DOMAIN wallet'.positions = DOMAIN wallet.positions \cup {s}
              /\ \A t \in DOMAIN wallet.positions \ {s} :
                    wallet'.positions[t] = wallet.positions[t]
              /\ IF s \in DOMAIN wallet.positions
                 THEN LET a0 == wallet.positions[s].amount
                          e0 == wallet.positions[s].entry_price
                      IN  /\ wallet'.positions[s].amount = RAdd(a0, a)
                          /\ wallet'.positions[s].entry_price =
                                RDiv(RAdd(RMul(a0, e0), RMul(a, p)), RAdd(a0, a))
                 ELSE /\ wallet'.positions[s].amount = a
                      /\ wallet'.positions[s].entry_price = p
      ]_vars

\* a second lot was bought at another price while another symbol was held
C17_Witness ==
    /\ lastCall.op = "buy" /\ lastCall.ok
    /\ Cardinality(DOMAIN wallet.positions) = 2
    /\ lastCall.symbol \in DOMAIN wallet.positions
    /\ wallet.positions[lastCall.symbol].entry_price # lastCall.price
    /\ RGt(wallet.positions[lastCall.symbol].amount, lastCall.amount)

---------------------------------------------------------------------------
(* agents/trading_agents.py : the ledger kept by execute_trades *)

\* A quote that failed: BinanceWrapper.get_current_price returned None.
NoPrice == <<0, 0>>
IsNone(p) == p[2] = 0

\* valid_pairs of execute_trades
ValidPairs ==
    {"BTCUSDT", "ETHUSDT", "BNBUSDT", "SOLUSDT", "ADAUSDT", "XRPUSDT", "DOGEUSDT",
     "PEPEUSDT", "FLOKIUSDT", "BONKUSDT", "BOMEUSDT", "WIFUSDT",
     "UNIUSDT", "CAKEUSDT", "SUSHIUSDT", "COMPUSDT", "AAVEUSDT", "MKRUSDT",
     "YFIUSDT", "CRVUSDT", "SNXUSDT", "PERPUSDT", "GMXUSDT", "BALUSDT",
     "1INCHUSDT", "ZRXUSDT",
     "AVAXUSDT", "MATICUSDT", "DOTUSDT", "LINKUSDT",
     "SHIBUSDT", "LTCUSDT", "ATOMUSDT", "NEARUSDT", "ALGOUSDT"}

\* current_prices as the drivers build it: a quote per coin of TRADING_COINS
\* (three of them here), SHIBUSDT's quote having failed.
CurrentPrices ==
    [s \in {"BTCUSDT", "DOGEUSDT", "SHIBUSDT"} |->
        CASE s = "BTCUSDT"  -> Num(5)
          [] s = "DOGEUSDT" -> Num(2)
          [] OTHER          -> NoPrice]

\* self.position_fields
PositionFields == {"amount", "average_price", "total_value", "entry_price"}

\* TradingAgents._ensure_position_fields
EnsurePositionFields(position, current_price) ==
    [f \in DOMAIN position \cup PositionFields |->
        IF f \in DOMAIN position THEN position[f]
        ELSE IF f = "entry_price" THEN current_price ELSE Zero]

\* execute_trades, its first loop: every position with a quote gets its fields
EnsureAll(positions, prices) ==
    [s \in DOMAIN positions |->
        IF s \in DOMAIN prices
        THEN EnsurePositionFields(positions[s], prices[s])
        ELSE positions[s]]

\* The amount of a trade object as json.loads gives it
AmtNum(v) == [k |-> "num", v |-> v]        \* a JSON number
AmtStr(v) == [k |-> "str", v |-> v]        \* a string float() parses to v
AmtBadStr == [k |-> "badstr", v |-> Zero]  \* a string float() rejects
AmtNull   == [k |-> "null", v |-> Zero]    \* null: None > 0 raises TypeError

RequiredKeys == {"type", "symbol", "amount", "reason"}

\* An element of the list json.loads returns for the executor's response
TradeObject(type, symbol, amount) ==
    [obj |-> TRUE, keys |-> RequiredKeys, type |-> type, typeIsStr |-> TRUE,
     symbol |-> symbol, amount |-> amount, price |-> NoPrice]

\* str.lower() on the type strings that occur
Lower(t) ==
    CASE t = "BUY"  -> "buy"
      [] t = "SELL" -> "sell"
      [] t = "HOLD" -> "hold"
      [] OTHER      -> t

\* amount = float(trade['amount']) if isinstance(trade['amount'], str)
\*          else trade['amount']; then amount > 0.  raised: ValueError or
\* TypeError, caught by the inner handler.
ConvertAmount(amount) ==
    CASE amount.k = "num" -> [raised |-> FALSE, v |-> amount.v]
      [] amount.k = "str" -> [raised |-> FALSE, v |-> amount.v]
      [] OTHER            -> [raised |-> TRUE,  v |-> Zero]

\* the mutant of WellFormed: the sign of the amount is not looked at
WellFormedAnyAmount(trade, prices) ==
    /\ trade.obj
    /\ ~("type" \in trade.keys /\ trade.typeIsStr /\ trade.type = "information")
    /\ RequiredKeys \subseteq trade.keys
    /\ trade.typeIsStr
    /\ Lower(trade.type) \in {"buy", "sell"}
    /\ trade.symbol # "USDT"
    /\ trade.symbol \in ValidPairs /\ trade.symbol \in DOMAIN prices
    /\ ~ConvertAmount(trade.amount).raised
    /\ ~IsNone(prices[trade.symbol])

\* The checks of the validation loop that come before the ledger is touched:
\* TRUE when the trade gets as far as the buy / sell branch.
WellFormed(trade, prices) ==
    /\ trade.obj
    /\ ~("type" \in trade.keys /\ trade.typeIsStr /\ trade.type = "information")
    /\ RequiredKeys \subseteq trade.keys
    /\ trade.typeIsStr                       \* else .lower() raises
    /\ Lower(trade.type) \in {"buy", "sell"}
    /\ trade.symbol # "USDT"
    /\ trade.symbol \in ValidPairs /\ trade.symbol \in DOMAIN prices
    /\ ~ConvertAmount(trade.amount).raised
    /\ RGt(ConvertAmount(trade.amount).v, Zero)
    /\ ~IsNone(prices[trade.symbol])         \* else amount * price raises

\* the mutant of LedgerBuyRejected: the balance is not looked at
LedgerBuyAlwaysAccepted(st, trade_value) == FALSE

\* if trade_value > state['available_balance']: continue
LedgerBuyRejected(st, trade_value) == RGt(trade_value, st.available_balance)

\* the mutant of LedgerSellRejected: only the presence of a position is checked
LedgerSellAnyAmount(st, symbol, amount) == symbol \notin DOMAIN st.positions

\* the two checks of the sell branch
LedgerSellRejected(st, symbol, amount) ==
    \/ symbol \notin DOMAIN st.positions
    \/ RLt(st.positions[symbol].amount, amount)

\* the buy branch
LedgerBuy(st, symbol, amount, price) ==
    LET trade_value == RMul(amount, price)
    IN  [st EXCEPT
          !.available_balance = RSub(st.available_balance, trade_value),
          !.positions =
            IF symbol \notin DOMAIN st.positions
            THEN Put(st.positions, symbol,
                     [amount |-> amount, average_price |-> price,
                      total_value |-> trade_value, entry_price |-> price])
            ELSE LET current_position == st.positions[symbol]
                     total_amount == RAdd(current_position.amount, amount)
                     total_value == RAdd(current_position.total_value, trade_value)
                 IN  Put(st.positions, symbol,
                         [amount |-> total_amount,
                          average_price |-> RDiv(total_value, total_amount),
                          total_value |-> total_value,
                          entry_price |-> current_position.entry_price])]

\* the sell branch
LedgerSell(st, symbol, amount, price) ==
    LET trade_value == RMul(amount, price)
        current_position == st.positions[symbol]
        remaining_amount == RSub(current_position.amount, amount)
        remaining_value == RMul(remaining_amount, price)
    IN  [st EXCEPT
          !.positions =
            IF RLe(remaining_amount, Zero)
            THEN Del(st.positions, symbol)
            ELSE Put(st.positions, symbol,
                     [amount |-> remaining_amount,
                      average_price |-> price,
                      total_value |-> remaining_value,
                      entry_price |-> current_position.entry_price]),
          !.available_balance = RAdd(st.available_balance, trade_value)]

\* the mutant of ApplyTrade: the balance is charged before the trade is checked
ApplyTradeChargeFirst(st, trade) ==
    IF ~WellFormed(trade, st.current_prices)
    THEN [st |-> st, ok |-> FALSE, trade |-> trade]
    ELSE LET amount == ConvertAmount(trade.amount).v
             price == st.current_prices[trade.symbol]
             done == [trade EXCEPT !.amount = AmtNum(amount)]
         IN  IF Lower(trade.type) = "buy"
             THEN IF LedgerBuyRejected(st, RMul(amount, price))
                  THEN [st |-> [st EXCEPT !.available_balance =
                                   RSub(st.available_balance, RMul(amount, price))],
                        ok |-> FALSE, trade |-> trade]
                  ELSE [st |-> LedgerBuy(st, trade.symbol, amount, price),
                        ok |-> TRUE, trade |-> done]
             ELSE IF LedgerSellRejected(st, trade.symbol, amount)
                  THEN [st |-> st, ok |-> FALSE, trade |-> trade]
                  ELSE [st |-> LedgerSell(st, trade.symbol, amount, price),
                        ok |-> TRUE, trade |-> done]

\* One iteration of the validation loop: the state after it, whether the
\* trade was appended to valid_trades, and the trade as appended
\* (trade['amount'] = amount).
ApplyTrade(st, trade) ==
    IF ~WellFormed(trade, st.current_prices)
    THEN [st |-> st, ok |-> FALSE, trade |-> trade]
    ELSE LET amount == ConvertAmount(trade.amount).v
             price == st.current_prices[trade.symbol]
             done == [trade EXCEPT !.amount = AmtNum(amount)]
         IN  IF Lower(trade.type) = "buy"
             THEN IF LedgerBuyRejected(st, RMul(amount, price))
                  THEN [st |-> st, ok |-> FALSE, trade |-> trade]
                  ELSE [st |-> LedgerBuy(st, trade.symbol, amount, price),
                        ok |-> TRUE, trade |-> done]
             ELSE IF LedgerSellRejected(st, trade.symbol, amount)
                  THEN [st |-> st, ok |-> FALSE, trade |-> trade]
                  ELSE [st |-> LedgerSell(st, trade.symbol, amount, price),
                        ok |-> TRUE, trade |-> done]

\* "Update portfolio value": the positions with their values refreshed and
\* the total.  A position quoted None makes amount * None raise and the
\* handler sets portfolio_value to available_balance; no run gets there, as
\* get_total_value of the drivers raises on such a position before the
\* pipeline starts.
RefreshPosition(position, current_price) ==
    LET q == EnsurePositionFields(position, current_price)
    IN  [q EXCEPT !.total_value = RMul(q.amount, current_price),
                  !.average_price = current_price,
                  !.entry_price = IF q.entry_price = Zero THEN current_price
                                  ELSE q.entry_price]

Refreshable(st, s) == s \in DOMAIN st.current_prices /\ ~IsNone(st.current_prices[s])

\* the mutant of UpdatePortfolioValue: the positions are not counted
UpdatePortfolioValueCashOnly(st) ==
    [st EXCEPT !.portfolio_value = st.available_balance]

UpdatePortfolioValue(st) ==
    IF \E s \in DOMAIN st.positions :
          s \in DOMAIN st.current_prices /\ IsNone(st.current_prices[s])
    THEN [st EXCEPT !.portfolio_value = st.available_balance]
    ELSE [st EXCEPT
            !.positions = [s \in DOMAIN st.positions |->
                             IF Refreshable(st, s)
                             THEN RefreshPosition(st.positions[s], st.current_prices[s])
                             ELSE st.positions[s]],
            !.portfolio_value =
                RAdd(st.available_balance,
                     SumOver({s \in DOMAIN st.positions : Refreshable(st, s)},
                             st.positions, st.current_prices))]

---------------------------------------------------------------------------
(* utils/state_manager.py : StateManager *)

\* A strategy passed as the key: a str (the dashboard passes the names of
\* STRATEGIES) or a TradingStrategy object (main passes agents.strategy).
StrKey(name) == [str |-> TRUE, name |-> name]
ObjKey(name) == [str |-> FALSE, name |-> name]

\* The content of a file: absent, empty (or blank), text that is no JSON, or
\* a JSON document, an object given as the mapping of its keys to its values
NoFile      == [kind |-> "missing", doc |-> <<>>]
EmptyFile   == [kind |-> "empty", doc |-> <<>>]
CorruptFile == [kind |-> "corrupt", doc |-> <<>>]
JsonFile(doc) == [kind |-> "json", doc |-> doc]

\* json.dump(self.states) raises TypeError on a key that is no str (int, float,
\* bool, None) and on a value it cannot serialize
Serializable(states) == \A k \in DOMAIN states : k.str

\* json.dump: the keys of the object are the strings
JsonDump(states) ==
    JsonFile([n \in {k.name : k \in DOMAIN states} |-> states[StrKey(n)]])

\* json.loads: every key of the object is a str
JsonLoads(doc) == [k \in {StrKey(n) : n \in DOMAIN doc} |-> doc[k.name]]

\* the mutant of SaveStates: the temporary file is written and never renamed
SaveStatesNoRename(m) == m

\* StateManager._save_states: the temporary file replaces the state file, or
\* json.dump raises and the temporary file is removed
SaveStates(m) ==
    IF Serializable(m.states)
    THEN [m EXCEPT !.file = JsonDump(m.states)]
    ELSE m

\* the mutant of BackupStateFile: no copy is made
BackupStateFileSkipped(m) == m

\* StateManager._backup_state_file
BackupStateFile(m) ==
    IF m.file.kind # "missing" THEN [m EXCEPT !.backup = m.file] ELSE m

\* StateManager._load_states
LoadStates(m) ==
    CASE m.file.kind = "missing" -> m
      [] m.file.kind = "empty"   -> m
      [] m.file.kind = "json"    -> [m EXCEPT !.states = JsonLoads(m.file.doc)]
      [] OTHER ->
           SaveStates([BackupStateFile(m) EXCEPT !.states = <<>>])

\* StateManager.__init__ on a state file and its backup file as they are
NewManager(file, backup, clock) ==
    LoadStates([states |-> <<>>, file |-> file, backup |-> backup,
                clock |-> clock, op |-> "init", key |-> StrKey(""),
                arg |-> <<>>, ok |-> TRUE])

\* state['k'] raises KeyError on these; the other keys are read with get()
IndexedKeys == {"current_prices", "portfolio_value", "progress_to_target",
                "positions", "available_balance"}

\* dict.get(key, default)
Get(st, k, default) == IF k \in DOMAIN st THEN st[k] ELSE default

\* the mutant of TradingStateOf: the trading plan is saved under risk_analysis
TradingStateOfMixedUp(strategy, st, now) ==
    [current_prices |-> st.current_prices,
     portfolio_value |-> st.portfolio_value,
     progress_to_target |-> st.progress_to_target,
     positions |-> st.positions,
     available_balance |-> st.available_balance,
     market_analysis |-> Get(st, "market_analysis", ""),
     risk_assessment |-> Get(st, "risk_assessment", ""),
     financial_advice |-> Get(st, "financial_advice", ""),
     risk_analysis |-> Get(st, "trading_plan", ""),
     trading_plan |-> Get(st, "trading_plan", ""),
     executed_trades |-> Get(st, "executed_trades", <<>>),
     strategy |-> strategy,
     last_updated |-> now]

\* StateManager.save_state: the TradingState built from the state
TradingStateOf(strategy, st, now) ==
    [current_prices |-> st.current_prices,
     portfolio_value |-> st.portfolio_value,
     progress_to_target |-> st.progress_to_target,
     positions |-> st.positions,
     available_balance |-> st.available_balance,
     market_analysis |-> Get(st, "market_analysis", ""),
     risk_assessment |-> Get(st, "risk_assessment", ""),
     financial_advice |-> Get(st, "financial_advice", ""),
     risk_analysis |-> Get(st, "risk_analysis", ""),
     trading_plan |-> Get(st, "trading_plan", ""),
     executed_trades |-> Get(st, "executed_trades", <<>>),
     strategy |-> strategy,
     last_updated |-> now]

\* StateManager.save_state; ok tells that the state file was written (neither
\* save_state nor _save_states caught an exception)
SaveState(m, strategy, st) ==
    IF ~(IndexedKeys \subseteq DOMAIN st)
    THEN [m EXCEPT !.op = "save_state", !.key = strategy, !.arg = st,
                   !.ok = FALSE]
    ELSE LET m1 == [m EXCEPT
                      !.states = Put(m.states, strategy,
                                     TradingStateOf(strategy, st, m.clock + 1)),
                      !.clock = m.clock + 1]
         IN  [SaveStates(m1) EXCEPT !.op = "save_state", !.key = strategy,
                                    !.arg = st, !.ok = Serializable(m1.states)]

\* StateManager.restore_from_backup; ok is the value returned, arg what the
\* call found: the state file, the backup file and the states in memory
RestoreFromBackup(m) ==
    LET found == [file |-> m.file, backup |-> m.backup, states |-> m.states]
    IN  IF m.backup.kind = "missing"
        THEN [m EXCEPT !.op = "restore_from_backup", !.key = StrKey(""),
                       !.arg = found, !.ok = FALSE]
        ELSE LET m1 == BackupStateFile(m)
                 m2 == [m1 EXCEPT !.file = m1.backup]
             IN  [LoadStates(m2) EXCEPT !.op = "restore_from_backup",
                                        !.key = StrKey(""),
                                        !.arg = found, !.ok = TRUE]

\* the default of clear_state's parameter: strategy=None
NoneKey == [str |-> FALSE, name |-> "None"]

\* `if strategy:` holds of a key: of neither None nor the empty str
Truthy(strategy) == strategy \notin {NoneKey, StrKey("")}

\* StateManager.clear_state; arg is the states the call found, ok tells that
\* the state file was written
ClearState(m, strategy) ==
    LET m1 == IF Truthy(strategy)
              THEN [m EXCEPT !.states = Del(m.states, strategy)]
              ELSE [m EXCEPT !.states = <<>>]
    IN  [SaveStates(m1) EXCEPT !.op = "clear_state", !.key = strategy,
                               !.arg = m.states,
                               !.ok = Serializable(m1.states)]

\* StateManager.load_state
LoadState(m, strategy) == Get(m.states, strategy, <<>>)

\* TradingAgents.save_state(state): the state is dumped to
\* 'trading_state.json', the file name StateManager defaults to
AgentsSaveState(m, st) == [m EXCEPT !.file = JsonFile(st)]

---------------------------------------------------------------------------
(* agents/trading_agents.py : _rate_limited_invoke and the pipeline stages *)

\* def _rate_limited_invoke(self, chain, input_data, max_retries=3)
MaxRetries == 3
\* self.min_request_interval = 1.1, in tenths of a second
MinRequestInterval == 11
\* TRADING_INTERVAL = 10 seconds, in tenths of a second
TradingInterval == 100

\* deepest nesting of execute_trades calling itself that is followed
MaxRecursion == 2
\* longest list of trade objects in an executor response
MaxTrades == 3

RECURSIVE Pow2(_)
Pow2(k) == IF k = 0 THEN 1 ELSE 2 * Pow2(k - 1)

\* the mutant of Backoff: the delays start at one second
BackoffFromOne(retry_count) == 10 * Pow2(retry_count - 1)

\* delay = 2 ** retry_count, in tenths of a second
Backoff(retry_count) == 10 * Pow2(retry_count)

\* the nodes of the workflow, in the order run_trading_workflow calls them
Stages == <<"market_analyst", "risk_manager", "financial_advisor",
            "risk_analyzer", "trader", "executor">>

\* the state key each of the first five stages assigns
OutField(stage) ==
    CASE stage = "market_analyst"    -> "market_analysis"
      [] stage = "risk_manager"      -> "risk_assessment"
      [] stage = "financial_advisor" -> "financial_advice"
      [] stage = "risk_analyzer"     -> "risk_analysis"
      [] stage = "trader"            -> "trading_plan"

\* required_fields of execute_trades
RequiredFields == {"market_analysis", "risk_assessment", "financial_advice",
                   "risk_analysis", "trading_plan"}

\* the mutant of StageAfter: the trader node is left out of the chain
StageAfterSkippingTrader(stage) ==
    CASE stage = "market_analyst"    -> "risk_manager"
      [] stage = "risk_manager"      -> "financial_advisor"
      [] stage = "financial_advisor" -> "risk_analyzer"
      [] stage = "risk_analyzer"     -> "executor"
      [] stage = "trader"            -> "executor"

\* the edges of the workflow (create_trading_workflow), the statement order
\* of run_trading_workflow
StageAfter(stage) ==
    CASE stage = "market_analyst"    -> "risk_manager"
      [] stage = "risk_manager"      -> "financial_advisor"
      [] stage = "financial_advisor" -> "risk_analyzer"
      [] stage = "risk_analyzer"     -> "trader"
      [] stage = "trader"            -> "executor"

\* What chain.invoke does: it returns a text (possibly an empty one) or raises
LlmTexts == {"text", ""}
\* the default responses returned after the last retry
Fallback == "fallback"

\* The pacing record of the TradingAgents instance:
\*   invoked  - chain.invoke has been called before
\*   slept    - time slept since the latest chain.invoke
\*   gap      - time slept between the latest chain.invoke and the one before
\*              it (-1 when the latest one is the first)
NewPace == [invoked |-> FALSE, slept |-> 0, gap |-> -1]

Sleep(p, t) == [p EXCEPT !.slept = p.slept + t]

ChainInvoked(p) ==
    [invoked |-> TRUE, slept |-> 0, gap |-> IF p.invoked THEN p.slept ELSE -1]

\* the mutant of RetriesExhausted: one retry too many
RetriesExhaustedLate(retry_count) == retry_count = MaxRetries + 1

\* if retry_count == max_retries: return a default response
RetriesExhausted(retry_count) == retry_count = MaxRetries

\* The record of a _rate_limited_invoke call:
\*   retry_count - the local variable
\*   attempts    - calls of chain.invoke made
\*   returned    - "" while in the loop; then "result" (chain.invoke's value
\*                 was returned), "fallback" (a default response was) or
\*                 "none" (the loop ended and the function returned None)
NewCall(chain) == [chain |-> chain, retry_count |-> 0, attempts |-> 0,
                   returned |-> ""]

\* One iteration of the while loop of _rate_limited_invoke, chain.invoke
\* raising or not: the call record and the pacing record after it.
Attempt(call, p, raises) ==
    LET p1 == IF call.retry_count > 0
              THEN Sleep(p, Backoff(call.retry_count)) ELSE p
        p2 == ChainInvoked(p1)
        c1 == [call EXCEPT !.attempts = call.attempts + 1]
    IN  IF ~raises
        THEN [call |-> [c1 EXCEPT !.returned = "result"], pace |-> p2]
        ELSE LET c2 == [c1 EXCEPT !.retry_count = call.retry_count + 1]
             IN  [call |-> [c2 EXCEPT !.returned =
                              IF RetriesExhausted(c2.retry_count) THEN "fallback"
                              ELSE IF c2.retry_count < MaxRetries THEN ""
                              ELSE "none"],
                  pace |-> p2]

\* a value `not v` holds of: the empty string, None
None == "None"

\* the mutant of Falsy: only None counts, an empty text does not
FalsyNoneOnly(v) == v = None

Falsy(v) == v \in {"", None}

\* missing_fields of execute_trades: field not in state or not state[field]
MissingFields(st) ==
    {f \in RequiredFields : f \notin DOMAIN st \/ Falsy(st[f])}

\* the value a finished call hands back, text being chain.invoke's
Returned(call, text) ==
    CASE call.returned = "result"   -> text
      [] call.returned = "fallback" -> Fallback
      [] OTHER                      -> None

---------------------------------------------------------------------------
(* The pipeline position *)

\* run:
\*   pc           - the stage being run; "executor_call", "exec_loop" inside
\*                  execute_trades; "returned" once the workflow is through
\*   call         - the _rate_limited_invoke call in progress
\*   last         - the latest _rate_limited_invoke call that returned
\*   started      - the stages the workflow has started, in order
\*   written      - the state keys assigned by the stages so far
\*   depth        - nesting of execute_trades in itself
\*   queries      - _rate_limited_invoke calls made by execute_trades
\*   len          - how many trade objects the response holds
\*   left         - how many trade objects of the response are still to be
\*                  validated
\*   trade        - the trade object validated last
\*   valid_trades - the local list of execute_trades
\*   aliased      - state['positions'] is the wallet's positions dict
\*   driver       - "main" (main.py), "frontend" (frontend.py) or "" (none)
\*   portfolio_value - the driver's local variable
\*   cycle        - the cycles the driver has begun
\*   applied      - what the driver did with each entry of executed_trades
NoTrade == [TradeObject("", "", AmtNull) EXCEPT !.obj = FALSE, !.keys = {}]

NewRun(stage, aliased) ==
    [pc |-> stage, call |-> NewCall(stage), last |-> NewCall(""),
     started |-> <<stage>>, written |-> {}, depth |-> 0, queries |-> 0,
     len |-> 0, left |-> 0, trade |-> NoTrade, valid_trades |-> <<>>,
     aliased |-> aliased, driver |-> "", portfolio_value |-> Zero,
     cycle |-> 0, applied |-> <<>>]

\* the wallet sees what execute_trades does to the dict it shares with it
Shared(w, positions) ==
    IF run.aliased THEN [w EXCEPT !.positions = positions] ELSE w

FirstFive == {"market_analyst", "risk_manager", "financial_advisor",
              "risk_analyzer", "trader"}

\* analyze_market, assess_risk, get_financial_advice, analyze_risk,
\* create_trading_plan: one iteration of the stage's _rate_limited_invoke
\* and, when it returns, the assignment to the state, the save_state of
\* run_trading_workflow (the dashboard's driver) and the next stage.
StageAttempt ==
    /\ run.pc \in FirstFive
    /\ \E raises \in BOOLEAN, text \in LlmTexts :
         LET r == Attempt(run.call, pace, raises)
             next == StageAfter(run.pc)
         IN  /\ pace' = r.pace
             /\ IF r.call.returned = ""
                THEN /\ run' = [run EXCEPT !.call = r.call]
                     /\ agent' = agent
                     /\ sm' = sm
                ELSE /\ agent' = [agent EXCEPT ![OutField(run.pc)] =
                                     Returned(r.call, text)]
                     /\ sm' = IF run.driver = "frontend"
                              THEN [sm EXCEPT !.m = AgentsSaveState(sm.m, agent')]
                              ELSE sm
                     /\ run' = [run EXCEPT
                                  !.pc = next,
                                  !.last = r.call,
                                  !.call = NewCall(next),
                                  !.started = Append(run.started, next),
                                  !.written = run.written \cup {OutField(run.pc)}]
    /\ UNCHANGED <<wallet, lastCall>>

\* execute_trades up to "Proceeding with trade execution..."
ExecEnter ==
    /\ run.pc = "executor"
    /\ LET ensured == EnsureAll(agent.positions, agent.current_prices)
           missing_fields == MissingFields(agent)
       IN  /\ agent' = [agent EXCEPT !.positions = ensured]
           /\ wallet' = Shared(wallet, ensured)
           /\ run' = [run EXCEPT
                        !.pc = IF missing_fields # {} THEN "returned"
                               ELSE "executor_call",
                        !.call = NewCall("executor"),
                        !.queries = IF missing_fields # {} THEN run.queries
                                    ELSE run.queries + 1]
    /\ UNCHANGED <<lastCall, pace, sm>>

\* What the clean-up and the JSON extraction make of the executor's text:
\*   "trades"              a list of objects was parsed (a JSON array, or the
\*                         single objects holding "type":), never an empty one
\*   "json_without_trades" ValueError, and the text is valid JSON ("[]", an
\*                         information object): the handler parses it and
\*                         calls execute_trades again
\*   "unparseable"         no JSON at all, or JSON that does not parse: the
\*                         handler fails too and the state is returned
\* The response is any text, so the objects of its list are any objects: each
\* is drawn when the loop comes to it, the response fixing how many there are.
Responses(n) ==
    {[kind |-> "trades", len |-> k] : k \in 1..n}
    \cup {[kind |-> "json_without_trades", len |-> 0],
          [kind |-> "unparseable", len |-> 0]}

\* a default response, or None, in place of the executor's text
NoResponse == [kind |-> "unparseable", len |-> 0]

\* execute_trades from the call of the executor chain to json.loads, one
\* iteration of _rate_limited_invoke at a time; the executor answers with a
\* response of at most n trade objects.
ExecAttempt(n) ==
    /\ run.pc = "executor_call"
    /\ \E raises \in BOOLEAN, text \in Responses(n) :
         LET r == Attempt(run.call, pace, raises)
             resp == IF r.call.returned = "result" THEN text ELSE NoResponse
         IN  /\ pace' = r.pace
             /\ IF r.call.returned = ""
                THEN run' = [run EXCEPT !.call = r.call]
                ELSE run' = [run EXCEPT
                       !.last = r.call,
                       !.call = NewCall(""),
                       !.pc = CASE resp.kind = "trades" -> "exec_loop"
                                [] resp.kind = "json_without_trades"
                                   /\ run.depth < MaxRecursion -> "executor"
                                [] OTHER -> "returned",
                       !.depth = IF resp.kind = "json_without_trades"
                                    /\ run.depth < MaxRecursion
                                 THEN run.depth + 1 ELSE run.depth,
                       !.len = resp.len,
                       !.left = resp.len,
                       !.valid_trades = <<>>]
    /\ UNCHANGED <<wallet, lastCall, agent, sm>>

\* one iteration of "for trade in trades", the trade being one of items
ExecTrade(items) ==
    /\ run.pc = "exec_loop"
    /\ run.left > 0
    /\ \E trade \in items :
       LET r == ApplyTrade(agent, trade)
       IN  /\ agent' = r.st
           /\ wallet' = Shared(wallet, r.st.positions)
           /\ run' = [run EXCEPT
                        !.left = run.left - 1,
                        !.trade = trade,
                        !.valid_trades = IF r.ok
                                         THEN Append(run.valid_trades, r.trade)
                                         ELSE run.valid_trades]
    /\ UNCHANGED <<lastCall, pace, sm>>

\* execute_trades after the loop: portfolio value, executed_trades, return
ExecFinish ==
    /\ run.pc = "exec_loop"
    /\ run.left = 0
    /\ LET st == UpdatePortfolioValue(agent)
       IN  /\ agent' = [st EXCEPT !.executed_trades = run.valid_trades]
           /\ wallet' = Shared(wallet, st.positions)
    /\ run' = [run EXCEPT !.pc = "returned"]
    /\ UNCHANGED <<lastCall, pace, sm>>

---------------------------------------------------------------------------
(* execute_trades called on a state of its own *)

\* the trade objects the executor's responses are made of
ExecItems ==
    { TradeObject("buy", "BTCUSDT", AmtNum(Num(1))),
      TradeObject("buy", "BTCUSDT", AmtStr(Num(2))),
      TradeObject("BUY", "DOGEUSDT", AmtNum(Num(3))),
      TradeObject("buy", "BTCUSDT", AmtNum(Num(3))),
      TradeObject("sell", "BTCUSDT", AmtNum(Num(2))),
      TradeObject("SELL", "BTCUSDT", AmtNum(Num(1))),
      TradeObject("sell", "BTCUSDT", AmtNum(Num(3))),
      TradeObject("sell", "DOGEUSDT", AmtStr(Num(1))),
      \* not an object
      [TradeObject("buy", "BTCUSDT", AmtNum(Num(1))) EXCEPT !.obj = FALSE],
      \* keys missing
      [TradeObject("buy", "BTCUSDT", AmtNum(Num(1))) EXCEPT
          !.keys = RequiredKeys \ {"reason"}],
      [TradeObject("sell", "BTCUSDT", AmtNum(Num(1))) EXCEPT
          !.keys = RequiredKeys \ {"amount"}],
      \* types that are not buy or sell
      TradeObject("information", "BTCUSDT", AmtNum(Num(1))),
      TradeObject("HOLD", "BTCUSDT", AmtNum(Num(1))),
      [TradeObject("42", "BTCUSDT", AmtNum(Num(1))) EXCEPT !.typeIsStr = FALSE],
      \* symbols that cannot be traded
      TradeObject("sell", "USDT", AmtNum(Num(1))),
      TradeObject("buy", "MYROUSDT", AmtNum(Num(1))),
      TradeObject("buy", "LTCUSDT", AmtNum(Num(1))),
      TradeObject("buy", "SHIBUSDT", AmtNum(Num(1))),
      \* amounts that are no positive number
      TradeObject("buy", "BTCUSDT", AmtBadStr),
      TradeObject("sell", "BTCUSDT", AmtNull),
      TradeObject("buy", "BTCUSDT", AmtNum(Zero)),
      TradeObject("sell", "BTCUSDT", AmtStr(Num(-1))) }

ExecBalances == {Zero, Num(4), Num(10)}

\* positions as a TestWallet holds them (amount, entry_price) and as an
\* earlier execute_trades left them (all four fields)
ExecPositions ==
    { <<>>,
      [s \in {"BTCUSDT"} |-> [amount |-> Num(2), entry_price |-> Num(4)]],
      [s \in {"BTCUSDT", "DOGEUSDT"} |->
          IF s = "BTCUSDT"
          THEN [amount |-> Num(2), average_price |-> Num(5),
                total_value |-> Num(10), entry_price |-> Num(4)]
          ELSE [amount |-> Num(1), average_price |-> Num(2),
                total_value |-> Num(2), entry_price |-> Num(2)]] }

\* the state execute_trades is handed: every stage has written its text, or
\* the trading plan is empty
NewState(balance, positions, plan) ==
    [current_prices |-> CurrentPrices,
     portfolio_value |-> Zero,
     progress_to_target |-> Zero,
     positions |-> positions,
     available_balance |-> balance,
     market_analysis |-> "text",
     risk_assessment |-> "text",
     financial_advice |-> "text",
     risk_analysis |-> "text",
     trading_plan |-> plan,
     executed_trades |-> <<>>]

\* the stage outputs the state handed to execute_trades may lack altogether
ExecAbsent == {{}, {"risk_analysis"}}

InitExec ==
    /\ \E b \in ExecBalances, ps \in ExecPositions, plan \in LlmTexts,
          absent \in ExecAbsent :
         agent = Without(NewState(b, ps, plan), absent)
    /\ run = NewRun("executor", FALSE)
    /\ pace = NewPace
    /\ wallet = <<>>
    /\ lastCall = NoCall
    /\ sm = <<>>

NextExec ==
    \/ ExecEnter
    \/ ExecAttempt(MaxTrades)
    \/ ExecTrade(ExecItems)
    \/ ExecFinish

SpecExec == InitExec /\ [][NextExec]_vars

---------------------------------------------------------------------------
(* Claims about execute_trades *)

\* the trade appended to valid_trades by the step, if one was
C3_Appended == run'.valid_trades[Len(run'.valid_trades)]

\* C3: execute_trades, started with available_balance >= 0 and every position
\* amount > 0, keeps available_balance >= 0 and every position amount > 0
\* through any list of trade objects (a buy being checked against the balance
\* as the earlier trades of the list left it), and a sell it accepts is of a
\* symbol held and of no more than the amount held.
C3_ExecutorWithinMeans ==
    [][ /\ RGe(agent'.available_balance, Zero)
        /\ \A s \in DOMAIN agent'.positions :
              RGt(agent'.positions[s].amount, Zero)
        /\ (/\ Len(run'.valid_trades) = Len(run.valid_trades) + 1
            /\ Lower(C3_Appended.type) = "sell") =>
              /\ C3_Appended.symbol \in DOMAIN agent.positions
              /\ RLe(C3_Appended.amount.v,
                     agent.positions[C3_Appended.symbol].amount)
              /\ LET left == RSub(agent.positions[C3_Appended.symbol].amount,
                                  C3_Appended.amount.v)
                 IN  IF left = Zero
                     THEN C3_Appended.symbol \notin DOMAIN agent'.positions
                     ELSE agent'.positions[C3_Appended.symbol].amount = left
      ]_vars

\* a buy that the balance covered when the list began is skipped because an
\* earlier buy of the same list has spent the money
C3_Witness ==
    /\ run.pc = "exec_loop"
    /\ Len(run.valid_trades) = 1
    /\ run.valid_trades[1] = TradeObject("buy", "BTCUSDT", AmtNum(Num(2)))
    /\ run.trade = TradeObject("buy", "BTCUSDT", AmtNum(Num(1)))
    /\ agent.available_balance = Zero

\* what C5 calls a malformed trade, st being the state the loop reaches it in
C5_Malformed(t, st) ==
    \/ ~t.obj
    \/ ~(RequiredKeys \subseteq t.keys)
    \/ ~t.typeIsStr
    \/ t.type \notin {"buy", "sell", "BUY", "SELL"}
    \/ t.symbol = "USDT"
    \/ t.symbol \notin ValidPairs
    \/ t.symbol \notin DOMAIN st.current_prices
    \/ IsNone(st.current_prices[t.symbol])
    \/ t.amount.k \notin {"num", "str"}
    \/ RLe(t.amount.v, Zero)
    \/ /\ t.type \in {"buy", "BUY"}
       /\ RGt(RMul(t.amount.v, st.current_prices[t.symbol]), st.available_balance)
    \/ /\ t.type \in {"sell", "SELL"}
       /\ \/ t.symbol \notin DOMAIN st.positions
          \/ RGt(t.amount.v, st.positions[t.symbol].amount)

\* C5: a malformed trade object (not an object, a key missing, a type that is
\* not buy or sell, USDT, a symbol outside the valid pairs or without a
\* current price, an amount that is no positive number, or a failed balance or
\* holding check) leaves available_balance and positions as they were and is
\* not added to executed_trades, and the loop goes on with the rest of the list.
C5_MalformedTradesDiscarded ==
    [][ /\ (run.pc = "exec_loop" /\ run'.left = run.left - 1
            /\ C5_Malformed(run'.trade, agent)) =>
              /\ agent'.available_balance = agent.available_balance
              /\ agent'.positions = agent.positions
              /\ run'.valid_trades = run.valid_trades
              /\ run'.pc = "exec_loop"
        /\ (run.pc = "exec_loop" /\ run'.pc = "returned") =>
              agent'.executed_trades = run.valid_trades
      ]_vars

\* of a list of three, one trade was discarded and the last one was executed
C5_Witness ==
    /\ run.pc = "exec_loop"
    /\ run.len = 3 /\ run.left = 0
    /\ Len(run.valid_trades) = 2
    /\ run.trade.obj
    /\ run.valid_trades[2] =
          [run.trade EXCEPT !.amount = AmtNum(run.trade.amount.v)]
    /\ run.valid_trades[1] # run.valid_trades[2]

\* what C19 calls a valid trade, prices being the current prices
C19_Valid(e, prices) ==
    /\ e.obj
    /\ RequiredKeys \subseteq e.keys
    /\ e.typeIsStr /\ e.type \in {"buy", "sell", "BUY", "SELL"}
    /\ e.symbol \in ValidPairs
    /\ e.symbol \in DOMAIN prices /\ ~IsNone(prices[e.symbol])
    /\ e.amount.k = "num" /\ RGt(e.amount.v, Zero)

\* the amount held of a symbol, 0 when there is no position
C19_Held(st, s) ==
    IF s \in DOMAIN st.positions THEN st.positions[s].amount ELSE Zero

\* C19: every trade execute_trades reports is valid (the four keys, a type of
\* buy or sell in either case, a symbol of the valid pairs that has a current
\* price, a numeric amount > 0); the loop either leaves the list as it is or
\* puts the trade object it just looked at, its amount as a number, at its end,
\* having moved that amount and its value at the current price once between
\* the balance and the position; executed_trades is the list the loop built.
C19_OnlyValidTradesReported ==
    [][ /\ \A i \in 1..Len(run'.valid_trades) :
              C19_Valid(run'.valid_trades[i], agent'.current_prices)
        /\ (run.pc = "exec_loop" /\ run'.left = run.left - 1) =>
              \/ /\ run'.valid_trades = run.valid_trades
                 /\ agent'.available_balance = agent.available_balance
                 /\ agent'.positions = agent.positions
              \/ LET e == run'.valid_trades[Len(run'.valid_trades)]
                     value == RMul(e.amount.v, agent.current_prices[e.symbol])
                     sign == IF e.type \in {"buy", "BUY"} THEN Num(1) ELSE Num(-1)
                 IN  /\ run'.valid_trades = Append(run.valid_trades, e)
                     /\ e = [run'.trade EXCEPT !.amount = AmtNum(run'.trade.amount.v)]
                     /\ agent'.available_balance =
                           RSub(agent.available_balance, RMul(sign, value))
                     /\ C19_Held(agent', e.symbol) =
                           RAdd(C19_Held(agent, e.symbol), RMul(sign, e.amount.v))
                     /\ \A s \in DOMAIN agent.positions \ {e.symbol} :
                           agent'.positions[s] = agent.positions[s]
        /\ (run.pc = "exec_loop" /\ run'.pc = "returned") =>
              /\ agent'.executed_trades = run.valid_trades
              /\ agent'.available_balance = agent.available_balance
              /\ \A s \in DOMAIN agent.positions :
                    C19_Held(agent', s) = C19_Held(agent, s)
      ]_vars

\* of a response of three objects the second and the third were executed, in
\* that order, the third with its amount given as a string
C19_Witness ==
    /\ run.pc = "returned"
    /\ run.len = 3
    /\ Len(agent.executed_trades) = 2
    /\ agent.executed_trades[1] = TradeObject("BUY", "DOGEUSDT", AmtNum(Num(3)))
    /\ agent.executed_trades[2] = TradeObject("sell", "DOGEUSDT", AmtNum(Num(1)))
    /\ run.trade = TradeObject("sell", "DOGEUSDT", AmtStr(Num(1)))

\* C27: a call of execute_trades makes one _rate_limited_invoke of the
\* executor chain and does not call itself, whatever the executor answers.
C27_ExecutorQueriedOnce ==
    /\ run.queries <= 1
    /\ run.depth = 0

\* C13: when one of the five stage outputs is absent from the state or empty,
\* execute_trades returns at once: the executor chain is not invoked, no trade
\* is taken, available_balance and the amount of every position stay as they
\* were.
C13_RequiresStageOutputs ==
    [][ (\E f \in RequiredFields : f \notin DOMAIN agent \/ agent[f] = "") =>
          /\ run'.pc = "returned"
          /\ run'.queries = run.queries
          /\ pace' = pace
          /\ run'.valid_trades = run.valid_trades
          /\ agent'.executed_trades = agent.executed_trades
          /\ agent'.available_balance = agent.available_balance
          /\ DOMAIN agent'.positions = DOMAIN agent.positions
          /\ \A s \in DOMAIN agent.positions :
                agent'.positions[s].amount = agent.positions[s].amount
      ]_vars

\* execute_trades returned on a state without risk_analysis that held a
\* position and a balance
C13_Witness ==
    /\ run.pc = "returned"
    /\ "risk_analysis" \notin DOMAIN agent
    /\ agent.trading_plan # ""
    /\ run.queries = 0 /\ ~pace.invoked
    /\ DOMAIN agent.positions # {}
    /\ RGt(agent.available_balance, Zero)

---------------------------------------------------------------------------
(* The StateManager driven alone *)

\* writes to the state file a StateManager is driven through: its saves, the
\* dumps of TradingAgents.save_state, the damages from outside
MaxSaves == 2

SmKeys == {StrKey("quantitative"), StrKey("momentum"), ObjKey("Maximum Returns")}

\* states handed to save_state: two results of a workflow, one without the
\* keys save_state reads with get(), one without a key it indexes
SmStates ==
    { NewState(Num(10), <<>>, "text"),
      [NewState(Num(4),
                [s \in {"BTCUSDT"} |-> [amount |-> Num(2), entry_price |-> Num(4)]],
                "")
         EXCEPT !.portfolio_value = Num(14),
                !.market_analysis = Fallback,
                !.executed_trades =
                    <<TradeObject("BUY", "DOGEUSDT", AmtNum(Num(3)))>>],
      Without(NewState(Num(7), <<>>, "text"), {"risk_analysis", "executed_trades"}),
      Without(NewState(Num(8), <<>>, "text"), {"positions"}) }

\* the state file found at start-up: none, an empty one, a damaged one, one
\* written by an earlier run
SmFiles ==
    { NoFile, EmptyFile, CorruptFile,
      JsonDump([k \in {StrKey("momentum")} |->
                  TradingStateOf(k, NewState(Num(20), <<>>, "text"), 0)]) }

\* saved: the strategies a state was ever stored for (in the file found at
\* start-up or by save_state)
InitState ==
    /\ \E f \in SmFiles :
         sm = [m |-> NewManager(f, NoFile, 0),
               saved |-> IF f.kind = "json" THEN DOMAIN JsonLoads(f.doc) ELSE {}]
    /\ wallet = <<>>
    /\ lastCall = NoCall
    /\ agent = <<>>
    /\ run = <<>>
    /\ pace = <<>>

\* a call of save_state
SmSaveState ==
    /\ sm.m.clock < MaxSaves
    /\ \E k \in SmKeys, st \in SmStates :
         sm' = [m |-> SaveState(sm.m, k, st),
                saved |-> IF IndexedKeys \subseteq DOMAIN st
                          THEN sm.saved \cup {k} ELSE sm.saved]
    /\ UNCHANGED <<wallet, lastCall, agent, run, pace>>

\* a new StateManager is constructed on the same state file
SmReopen ==
    /\ sm' = [sm EXCEPT !.m = NewManager(sm.m.file, sm.m.backup, sm.m.clock)]
    /\ UNCHANGED <<wallet, lastCall, agent, run, pace>>

\* a call of TradingAgents.save_state, as run_trading_workflow makes after
\* each stage
SmAgentsSave ==
    /\ sm.m.clock < MaxSaves
    /\ \E st \in SmStates :
         sm' = [sm EXCEPT !.m = [AgentsSaveState(sm.m, st) EXCEPT
                                   !.clock = sm.m.clock + 1,
                                   !.op = "agents_save",
                                   !.key = StrKey(""),
                                   !.arg = st, !.ok = TRUE]]
    /\ UNCHANGED <<wallet, lastCall, agent, run, pace>>

\* a call of restore_from_backup
SmRestore ==
    /\ sm' = [sm EXCEPT !.m = RestoreFromBackup(sm.m)]
    /\ UNCHANGED <<wallet, lastCall, agent, run, pace>>

\* what _load_states can find besides a file of its own making: the state
\* file was deleted, truncated or damaged while no call was in progress
SmFileReplaced ==
    /\ sm.m.clock < MaxSaves
    /\ sm.m.file.kind = "json"
    /\ \E f \in {NoFile, EmptyFile, CorruptFile} :
         sm' = [sm EXCEPT !.m = [sm.m EXCEPT !.file = f,
                                             !.clock = sm.m.clock + 1,
                                             !.op = "file_replaced",
                                             !.key = StrKey(""),
                                             !.arg = <<>>, !.ok = TRUE]]
    /\ UNCHANGED <<wallet, lastCall, agent, run, pace>>

\* a call of clear_state: of a strategy, of the empty name, of no argument
SmClearState ==
    /\ \E k \in SmKeys \cup {StrKey(""), NoneKey} :
         sm' = [sm EXCEPT !.m = ClearState(sm.m, k)]
    /\ UNCHANGED <<wallet, lastCall, agent, run, pace>>

NextState ==
    \/ SmSaveState
    \/ SmClearState
    \/ SmReopen
    \/ SmAgentsSave
    \/ SmRestore
    \/ SmFileReplaced

SpecState == InitState /\ [][NextState]_vars

---------------------------------------------------------------------------
(* Claims about StateManager *)

\* the fields C10 names agree between a loaded record and the state saved
C10_Agrees(rec, s, st) ==
    /\ rec # <<>>
    /\ \A k \in IndexedKeys : rec[k] = st[k]
    /\ \A k \in RequiredFields : rec[k] = Get(st, k, "")
    /\ rec.executed_trades = Get(st, "executed_trades", <<>>)
    /\ rec.strategy = s

\* C10: after a save_state(s, st) that succeeded, load_state(s) on the same
\* StateManager and on one constructed afterwards on the same state file
\* returns a record whose saved fields are those of st and whose strategy is s;
\* the save changes what load_state returns for no other strategy; load_state
\* of a strategy never saved returns the empty record.
C10_SaveLoadRoundTrip ==
    [][ /\ (sm'.m.op = "save_state" /\ sm'.m.ok) =>
             /\ C10_Agrees(LoadState(sm'.m, sm'.m.key), sm'.m.key, sm'.m.arg)
             /\ C10_Agrees(LoadState(NewManager(sm'.m.file, sm'.m.backup,
                                                sm'.m.clock), sm'.m.key),
                           sm'.m.key, sm'.m.arg)
        /\ sm'.m.op = "save_state" =>
             \A t \in SmKeys \ {sm'.m.key} :
                 LoadState(sm'.m, t) = LoadState(sm.m, t)
        /\ \A t \in SmKeys \ sm'.saved : LoadState(sm'.m, t) = <<>>
      ]_vars

\* a second strategy was saved, with a state lacking the optional keys, beside
\* one saved before, and the state file had been found damaged
C10_Witness ==
    /\ sm.m.op = "save_state" /\ sm.m.ok
    /\ "risk_analysis" \notin DOMAIN sm.m.arg
    /\ Cardinality(DOMAIN sm.m.states) = 2
    /\ sm.m.backup = CorruptFile

\* C11: when a backup file exists, restore_from_backup returns True and
\* leaves the state file and the states in memory equal to what the backup
\* file held just before the call; when none exists it returns False and
\* changes neither the state file nor the states in memory.
C11_RestoreFromBackup ==
    sm.m.op = "restore_from_backup" =>
        IF sm.m.arg.backup.kind = "missing"
        THEN /\ ~sm.m.ok
             /\ sm.m.file = sm.m.arg.file
             /\ sm.m.states = sm.m.arg.states
        ELSE /\ sm.m.ok
             /\ sm.m.file = sm.m.arg.backup
             /\ sm.m.arg.backup.kind = "json" =>
                   sm.m.states = JsonLoads(sm.m.arg.backup.doc)

\* C21: clear_state(s) removes the saved state of s and leaves the saved
\* state of every other strategy as it was (nothing changes in the states
\* when s was never saved), clear_state() removes all saved states, and
\* either way the state file is rewritten and holds the states in memory.
C21_ClearStateRemovesWhatItNames ==
    sm.m.op = "clear_state" =>
        /\ sm.m.key # NoneKey => sm.m.states = Del(sm.m.arg, sm.m.key)
        /\ sm.m.key = NoneKey => sm.m.states = <<>>
        /\ sm.m.file.kind = "json"
        /\ JsonLoads(sm.m.file.doc) = sm.m.states

\* C20: a StateManager constructed on a state file that is no JSON copies the
\* file to the backup file, has no states and rewrites the state file as an
\* empty mapping; constructed on a missing or an empty state file it has no
\* states and neither file is created or modified.
C20_CorruptFileBackedUp ==
    [][ sm'.m.op = "init" =>
          /\ sm.m.file.kind = "corrupt" =>
                /\ sm'.m.backup = sm.m.file
                /\ sm'.m.states = <<>>
                /\ sm'.m.file = JsonFile(<<>>)
          /\ sm.m.file.kind \in {"missing", "empty"} =>
                /\ sm'.m.states = <<>>
                /\ sm'.m.file = sm.m.file
                /\ sm'.m.backup = sm.m.backup
      ]_vars

\* a manager was constructed on a state file damaged after states had been
\* saved to it: the damaged file is the backup, the state file an empty mapping
C20_Witness ==
    /\ sm.m.op = "init"
    /\ sm.saved # {}
    /\ sm.m.backup = CorruptFile
    /\ sm.m.file = JsonFile(<<>>)
    /\ sm.m.states = <<>>
    /\ sm.m.clock > 0

---------------------------------------------------------------------------
(* main.py / frontend.py : one trading cycle of a freshly started driver *)

\* longest list of trade objects in an executor response of a cycle
FlowTrades == 1

\* update_interval of the dashboard, 10 seconds unless the slider is moved,
\* in tenths of a second
UpdateInterval == 100

\* TestWallet.get_progress_to_target
GetProgressToTarget(w, prices) ==
    RMul(RDiv(RSub(GetTotalValue(w, prices), w.initial_balance),
              RSub(w.target_balance, w.initial_balance)),
         Num(100))

\* the key the driver hands the StateManager: main.py passes agents.strategy,
\* the dashboard the name of the strategy
DriverKey(driver) ==
    IF driver = "main" THEN ObjKey("Maximum Returns") ELSE StrKey("quantitative")

\* the prices fetched at the top of a cycle: BTCUSDT as at start-up, risen
\* tenfold, or None (get_current_price caught a BinanceAPIException)
PriceBoards == {CurrentPrices, [CurrentPrices EXCEPT !["BTCUSDT"] = Num(50)],
                [CurrentPrices EXCEPT !["BTCUSDT"] = NoPrice]}

\* TestWallet.get_total_value raises TypeError: a held amount is multiplied
\* by a price of None
TotalValueRaises(w, prices) ==
    \E s \in DOMAIN w.positions \cap DOMAIN prices : IsNone(prices[s])

\* the mutant of TargetReached: the check never succeeds
TargetNeverReached(portfolio_value) == FALSE

\* main.py: if portfolio_value >= TARGET_BALANCE
TargetReached(portfolio_value) == RGe(portfolio_value, Num(TARGET_BALANCE))

\* a trade object the executor gave a price of its own
WithPrice(trade, price) ==
    [trade EXCEPT !.keys = trade.keys \cup {"price"}, !.price = price]

\* the trade objects the executor's responses are made of
FlowItems ==
    { TradeObject("buy", "BTCUSDT", AmtNum(Num(1))),
      TradeObject("BUY", "DOGEUSDT", AmtNum(Num(3))),
      WithPrice(TradeObject("BUY", "DOGEUSDT", AmtStr(Num(3))), Num(2)),
      TradeObject("SELL", "BTCUSDT", AmtNum(Num(2))),
      TradeObject("sell", "BTCUSDT", AmtNum(Num(1))),
      TradeObject("HOLD", "BTCUSDT", AmtNum(Num(1))) }

\* the state file found at start-up: none, or one an earlier run of the
\* dashboard wrote at the end of a cycle
FlowFiles ==
    { NoFile,
      JsonDump([k \in {StrKey("quantitative")} |->
                  TradingStateOf(k,
                      [NewState(Num(4), <<>>, "text") EXCEPT
                         !.executed_trades =
                            <<TradeObject("BUY", "DOGEUSDT", AmtNum(Num(3)))>>],
                      0)]) }

\* a call the driver made, or did not make, for an entry of executed_trades
NotApplied == [called |-> FALSE, op |-> "none", symbol |-> "", amount |-> Zero,
               price |-> NoPrice, ok |-> FALSE]

\* wallet.buy / wallet.sell called by a driver; a price of None makes the
\* multiplication raise before the wallet is touched
WalletCall(w, op, symbol, amount, price) ==
    LET r == IF IsNone(price) THEN [w |-> w, ok |-> FALSE]
             ELSE IF op = "buy" THEN WalletBuy(w, symbol, amount, price)
             ELSE WalletSell(w, symbol, amount, price)
    IN  [w |-> r.w,
         call |-> [called |-> TRUE, op |-> op, symbol |-> symbol,
                   amount |-> amount, price |-> price, ok |-> r.ok]]

\* main.py execute_trades, one action: action['price'] raises KeyError, which
\* is caught, when the action has no price
MainExecuteTrade(w, action) ==
    IF action.type \in {"BUY", "SELL"} /\ "price" \in action.keys
    THEN WalletCall(w, IF action.type = "BUY" THEN "buy" ELSE "sell",
                    action.symbol, action.amount.v, action.price)
    ELSE [w |-> w, call |-> NotApplied]

\* frontend.py, one trade of "for trade in state['executed_trades']"
FrontendExecuteTrade(w, trade, current_prices) ==
    LET current_price == Get(current_prices, trade.symbol, NoPrice)
    IN  IF /\ trade.type \in {"BUY", "SELL"}
           /\ ~IsNone(current_price) /\ current_price # Zero
        THEN WalletCall(w, IF trade.type = "BUY" THEN "buy" ELSE "sell",
                        trade.symbol, trade.amount.v, current_price)
        ELSE [w |-> w, call |-> NotApplied]

\* the driver's loop over executed_trades
RECURSIVE ApplyExecuted(_, _, _, _)
ApplyExecuted(driver, w, trades, current_prices) ==
    IF trades = <<>> THEN [w |-> w, applied |-> <<>>]
    ELSE LET one == IF driver = "main"
                    THEN MainExecuteTrade(w, Head(trades))
                    ELSE FrontendExecuteTrade(w, Head(trades), current_prices)
             rest == ApplyExecuted(driver, one.w, Tail(trades), current_prices)
         IN  [w |-> rest.w, applied |-> <<one.call>> \o rest.applied]

\* The driver has constructed its objects: the wallet has bought its BTC at
\* 5 USDT, the StateManager has read the state file, no LLM call was made.
InitFlow ==
    /\ wallet = InitializeWithBtc(NewWallet(Num(INITIAL_BALANCE),
                                            Num(TARGET_BALANCE)), Num(5))
    /\ \E f \in FlowFiles :
         sm = [m |-> NewManager(f, NoFile, 0),
               saved |-> IF f.kind = "json" THEN DOMAIN JsonLoads(f.doc) ELSE {}]
    /\ \E driver \in {"main", "frontend"} :
         run = [NewRun("start", FALSE) EXCEPT !.driver = driver,
                                              !.started = <<>>]
    /\ agent = <<>>
    /\ pace = NewPace
    /\ lastCall = NoCall

\* The top of a cycle, up to the call of the workflow: the prices are
\* fetched, the previous state is loaded, the workflow state is built on the
\* wallet's own positions dict.  run_trading_workflow works on the dict it is
\* handed; the compiled graph of main.py hands its nodes that dict or a copy.
CycleStart ==
    /\ run.pc = "start"
    /\ \E current_prices \in PriceBoards,
          aliased \in IF run.driver = "main" THEN BOOLEAN ELSE {TRUE} :
         /\ ~TotalValueRaises(wallet, current_prices)
         /\ LET previous_state == LoadState(sm.m, DriverKey(run.driver))
                portfolio_value == GetTotalValue(wallet, current_prices)
                state ==
                  [current_prices |-> current_prices,
                   portfolio_value |-> portfolio_value,
                   progress_to_target |-> GetProgressToTarget(wallet, current_prices),
                   positions |-> wallet.positions,
                   available_balance |-> wallet.balance,
                   market_analysis |-> Get(previous_state, "market_analysis", ""),
                   risk_assessment |-> Get(previous_state, "risk_assessment", ""),
                   financial_advice |-> Get(previous_state, "financial_advice", ""),
                   risk_analysis |-> Get(previous_state, "risk_analysis", ""),
                   trading_plan |-> Get(previous_state, "trading_plan", ""),
                   executed_trades |-> Get(previous_state, "executed_trades", <<>>)]
            IN  /\ agent' = IF run.driver = "frontend"
                            THEN Put(state, "strategy", DriverKey(run.driver))
                            ELSE state
                /\ run' = [NewRun("market_analyst", aliased) EXCEPT
                             !.driver = run.driver,
                             !.cycle = run.cycle + 1,
                             !.portfolio_value = portfolio_value]
    /\ UNCHANGED <<wallet, lastCall, pace, sm>>

\* The top of a cycle when wallet.get_total_value raises: main.py prints the
\* error and sleeps TRADING_INTERVAL, its portfolio_value is not assigned;
\* the dashboard does not catch the error, its script run ends there.
CycleStartRaises ==
    /\ run.pc = "start"
    /\ \E current_prices \in PriceBoards : TotalValueRaises(wallet, current_prices)
    /\ run' = [run EXCEPT !.pc = IF run.driver = "main" THEN "sleeping"
                                  ELSE "raised",
                          !.cycle = run.cycle + 1]
    /\ pace' = IF run.driver = "main" THEN Sleep(pace, TradingInterval) ELSE pace
    /\ UNCHANGED <<wallet, lastCall, agent, sm>>

\* The rest of the cycle once execute_trades has returned: the last
\* save_state of run_trading_workflow (dashboard), state_manager.save_state,
\* the executed trades applied to the wallet, the target check (main.py) and
\* the sleep.  The record the StateManager keeps holds the state's positions
\* dict itself.
CycleEnd ==
    /\ run.pc = "returned"
    /\ LET key == DriverKey(run.driver)
           m1 == IF run.driver = "frontend"
                 THEN AgentsSaveState(sm.m, agent) ELSE sm.m
           m2 == SaveState(m1, key, agent)
           r == ApplyExecuted(run.driver, wallet, agent.executed_trades,
                              agent.current_prices)
           positions == IF run.aliased THEN r.w.positions ELSE agent.positions
           stop == /\ run.driver = "main"
                   /\ TargetReached(run.portfolio_value)
       IN  /\ wallet' = r.w
           /\ agent' = [agent EXCEPT !.positions = positions]
           /\ sm' = [m |-> [m2 EXCEPT !.states[key].positions = positions],
                     saved |-> sm.saved \cup {key}]
           /\ run' = [run EXCEPT !.pc = IF stop THEN "stopped" ELSE "sleeping",
                                 !.applied = r.applied]
           /\ pace' = IF stop THEN pace
                      ELSE Sleep(pace, IF run.driver = "main"
                                       THEN TradingInterval ELSE UpdateInterval)
    /\ UNCHANGED lastCall

NextFlow ==
    \/ CycleStart
    \/ CycleStartRaises
    \/ StageAttempt
    \/ ExecEnter
    \/ ExecAttempt(FlowTrades)
    \/ ExecTrade(FlowItems)
    \/ ExecFinish
    \/ CycleEnd

SpecFlow == InitFlow /\ [][NextFlow]_vars

---------------------------------------------------------------------------
(* Claims about the pipeline of a cycle *)

\* the stages started so far are the first stages of the workflow, in its
\* order, and each but the first found the output of the one before written
C4_InOrder ==
    /\ Len(run.started) <= Len(Stages)
    /\ \A i \in 1..Len(run.started) : run.started[i] = Stages[i]
    /\ \A i \in 2..Len(run.started) : OutField(run.started[i - 1]) \in run.written
    /\ (run.pc \in {"returned", "sleeping", "stopped"} /\ run.started # <<>>)
          => run.started = Stages

\* C4: in a cycle the six stages run once each in the order market analyst,
\* risk manager, financial advisor, risk analyzer, trader, executor, a stage
\* starting only when the one before has returned and written its output, and
\* the ledger takes no trade before the trader has written trading_plan.
C4_StagesOnceInOrder ==
    [][ /\ run'.pc # "start" => C4_InOrder'
        /\ (run.pc # "start" /\ run'.pc \notin {"sleeping", "stopped"}
            /\ (\/ run'.valid_trades # run.valid_trades
                \/ agent'.available_balance # agent.available_balance))
           => /\ "trading_plan" \in run.written
              /\ run.started = Stages
      ]_vars

\* a cycle went through the six stages and the executor's trade was taken
C4_Witness ==
    /\ run.pc = "returned"
    /\ run.started = Stages
    /\ Len(agent.executed_trades) = 1
    /\ run.valid_trades = agent.executed_trades
    /\ RLt(agent.available_balance, wallet.balance)

\* C6: _rate_limited_invoke calls the chain at most max_retries times; it
\* returns the result of the first call that does not raise, making no
\* further call; when max_retries calls have raised it returns a default
\* text; it returns nothing else and raises nothing.
C6_BoundedRetries ==
    [][ run'.pc # "start" =>
        /\ run'.call.attempts < MaxRetries
        /\ run'.call.retry_count = run'.call.attempts
        /\ run'.call.returned = ""
        /\ run'.last.attempts <= MaxRetries
        /\ run'.last.returned \in {"", "result", "fallback"}
        /\ run'.last.returned = "result" =>
              run'.last.attempts = run'.last.retry_count + 1
        /\ run'.last.returned = "fallback" =>
              /\ run'.last.attempts = MaxRetries
              /\ run'.last.retry_count = MaxRetries
        /\ (run.pc \in FirstFive /\ run'.pc # run.pc) =>
              /\ run.call.attempts + 1 = run'.last.attempts
              /\ agent'[OutField(run.pc)] \in
                    IF run'.last.returned = "fallback" THEN {Fallback}
                    ELSE LlmTexts
      ]_vars

\* the trader's chain raised three times and the default text became the
\* trading plan the executor was then called with
C6_Witness ==
    /\ run.pc = "executor_call"
    /\ agent.trading_plan = Fallback
    /\ "trading_plan" \in run.written

\* C18: the first attempt of a _rate_limited_invoke call is made without a
\* sleep, the second after a sleep of 2 seconds, the third after a sleep of 4
\* seconds, and nothing is slept after the attempt the call returns from.
C18_ExponentialBackoff ==
    [][ run.pc \in FirstFive \cup {"executor_call"} =>
          LET k == run.call.retry_count
              delay == CASE k = 0 -> 0 [] k = 1 -> 20 [] k = 2 -> 40
          IN  /\ k \in 0..2
              /\ run.call.attempts = k
              /\ pace'.invoked
              /\ pace'.slept = 0
              /\ pace'.gap = IF pace.invoked THEN pace.slept + delay ELSE -1
              /\ ~pace.invoked => k = 0
      ]_vars

\* a third attempt was made 4 seconds after the second, failed, and the call
\* returned its default text without a further sleep
C18_Witness ==
    /\ run.pc # "start"
    /\ run.last.returned = "fallback"
    /\ run.last.attempts = 3
    /\ pace.gap = 40
    /\ pace.slept = 0

\* available_balance plus, for every position with a current price, its
\* amount at that price
C23_MarkedToMarket(st) ==
    RAdd(st.available_balance,
         SumOver({s \in DOMAIN st.positions : Refreshable(st, s)},
                 st.positions, st.current_prices))

C7_FixedSleepBetweenInvocations ==
    run.pc # "start" => (pace.gap = -1 \/ pace.gap >= MinRequestInterval)

\* C8: at the end of a cycle the driver has called wallet.buy for every buy
\* and wallet.sell for every sell of executed_trades, with the entry's symbol
\* and amount, at the current price.
C8_ExecutedTradesApplied ==
    (run.pc \in {"sleeping", "stopped"} /\ run.started = Stages) =>
        /\ Len(run.applied) = Len(agent.executed_trades)
        /\ \A i \in 1..Len(agent.executed_trades) :
             LET trade == agent.executed_trades[i]
                 call == run.applied[i]
             IN  /\ call.called
                 /\ call.op = Lower(trade.type)
                 /\ call.symbol = trade.symbol
                 /\ call.amount = trade.amount.v
                 /\ call.price = agent.current_prices[trade.symbol]

---------------------------------------------------------------------------
(* main.py : the trading loop, the workflow of a cycle taken in one step *)

\* cycles the loop is followed through
MaxCycles == 2

\* _rate_limited_invoke from its first iteration to its return, chain.invoke
\* raising on the first `fails` of its calls
RECURSIVE RateLimitedInvoke(_, _, _)
RateLimitedInvoke(call, p, fails) ==
    LET r == Attempt(call, p, fails > 0)
    IN  IF r.call.returned # "" THEN r
        ELSE RateLimitedInvoke(r.call, r.pace, fails - 1)

\* the five stages before the executor, from `stage` on, each assigning what
\* its _rate_limited_invoke returned to its key of the state
RECURSIVE RunStages(_, _, _, _, _)
RunStages(st, p, stage, fails, text) ==
    IF stage \notin FirstFive THEN [st |-> st, pace |-> p]
    ELSE LET r == RateLimitedInvoke(NewCall(stage), p, fails)
         IN  RunStages([st EXCEPT ![OutField(stage)] = Returned(r.call, text)],
                       r.pace, StageAfter(stage), fails, text)

\* execute_trades: for trade in trades
RECURSIVE ApplyTrades(_, _)
ApplyTrades(st, trades) ==
    IF trades = <<>> THEN [st |-> st, valid_trades |-> <<>>]
    ELSE LET r == ApplyTrade(st, Head(trades))
             rest == ApplyTrades(r.st, Tail(trades))
         IN  [st |-> rest.st,
              valid_trades |-> IF r.ok THEN <<r.trade>> \o rest.valid_trades
                               ELSE rest.valid_trades]

\* execute_trades, the executor answering with the list `trades` of trade
\* objects, or with a text that holds no JSON when the list is empty
ExecuteTrades(st, p, fails, trades) ==
    LET st1 == [st EXCEPT
                  !.positions = EnsureAll(st.positions, st.current_prices)]
    IN  IF MissingFields(st1) # {}
        THEN [st |-> st1, pace |-> p, valid_trades |-> <<>>]
        ELSE LET r == RateLimitedInvoke(NewCall("executor"), p, fails)
             IN  IF r.call.returned # "result" \/ trades = <<>>
                 THEN [st |-> st1, pace |-> r.pace, valid_trades |-> <<>>]
                 ELSE LET l == ApplyTrades(st1, trades)
                      IN  [st |-> [UpdatePortfolioValue(l.st) EXCEPT
                                     !.executed_trades = l.valid_trades],
                           pace |-> r.pace, valid_trades |-> l.valid_trades]

\* what the executor answers in a cycle of the loop
LoopResponses == {<<>>} \cup {<<t>> : t \in FlowItems}

\* workflow.invoke(initial_state): the six nodes in a row
LoopWorkflow ==
    /\ run.pc = "market_analyst"
    /\ \E fails \in {0, MaxRetries}, text \in LlmTexts, trades \in LoopResponses :
         LET s == RunStages(agent, pace, "market_analyst", fails, text)
             e == ExecuteTrades(s.st, s.pace, fails, trades)
         IN  /\ agent' = e.st
             /\ pace' = e.pace
             /\ wallet' = Shared(wallet, e.st.positions)
             /\ run' = [run EXCEPT !.pc = "returned",
                                   !.started = Stages,
                                   !.written = RequiredFields,
                                   !.valid_trades = e.valid_trades]
    /\ UNCHANGED <<lastCall, sm>>

\* time.sleep(TRADING_INTERVAL) returns and `while True` begins the next cycle
LoopWake ==
    /\ run.pc = "sleeping"
    /\ run.driver = "main"
    /\ run.cycle < MaxCycles
    /\ run' = [run EXCEPT !.pc = "start"]
    /\ UNCHANGED <<wallet, lastCall, agent, pace, sm>>

InitLoop == InitFlow /\ run.driver = "main"

NextLoop ==
    \/ CycleStart
    \/ CycleStartRaises
    \/ LoopWorkflow
    \/ CycleEnd
    \/ LoopWake

SpecLoop == InitLoop /\ [][NextLoop]_vars

---------------------------------------------------------------------------
(* Claims about the trading loop *)

\* C12: the loop of main.py ends at the end of a cycle exactly when the
\* portfolio value computed at the top of that cycle, the wallet's total
\* value at the prices fetched then, is at least TARGET_BALANCE, and nothing
\* runs after it has ended; a cycle whose value is below the target, and a
\* cycle that raised, end in a sleep of TRADING_INTERVAL, after which the
\* next cycle begins.
C12_StopsAtTarget ==
    [][ /\ run.pc # "stopped"
        /\ (run.pc = "start" /\ run'.pc = "market_analyst")
              => run'.portfolio_value = GetTotalValue(wallet, agent'.current_prices)
        /\ (run'.pc = "stopped")
              <=> (run.pc = "returned"
                   /\ RGe(run.portfolio_value, Num(TARGET_BALANCE)))
        /\ (run.pc = "returned" /\ run'.pc # "stopped")
              => /\ run'.pc = "sleeping"
                 /\ pace'.slept = pace.slept + TradingInterval
        /\ (run.pc = "start" /\ run'.pc # "market_analyst")
              => /\ run'.pc = "sleeping"
                 /\ pace'.slept = pace.slept + TradingInterval
        /\ run.pc = "sleeping" => run'.pc = "start"
      ]_vars

\* the loop has ended in a cycle that followed one below the target or one
\* that raised
C12_Witness ==
    /\ run.pc = "stopped"
    /\ run.cycle > 1
    /\ RGe(run.portfolio_value, Num(TARGET_BALANCE))

\* C26: the executed_trades a cycle's workflow returns are the trades
\* execute_trades validated and applied in that cycle, none when it applied
\* none, even if the state began with the executed_trades of the cycle
\* before; so the driver calls the wallet for no trade of an earlier cycle.
C26_NoTradeCarriedOver ==
    /\ run.pc = "returned" => agent.executed_trades = run.valid_trades
    /\ (run.pc \in {"sleeping", "stopped"} /\ run.started = Stages
        /\ run.valid_trades = <<>>)
          => \A i \in DOMAIN run.applied : ~run.applied[i].called

---------------------------------------------------------------------------
(* utils/wallet.py : SimulatedWallet, driven alone *)

\* SimulatedWallet.__init__
NewSimulatedWallet ==
    [balance |-> Num(INITIAL_BALANCE),
     positions |-> <<>>,
     trade_history |-> <<>>,
     target_balance |-> Num(TARGET_BALANCE)]

\* SimulatedWallet.can_open_position
CanOpenPosition(w, symbol, amount, price) == RLe(RMul(amount, price), w.balance)

\* SimulatedWallet.open_position: the new wallet and the value returned
OpenPosition(w, symbol, amount, price) ==
    IF ~CanOpenPosition(w, symbol, amount, price)
    THEN [w |-> w, ok |-> FALSE]
    ELSE LET cost == RMul(amount, price)
         IN  [w |-> [w EXCEPT
                  !.balance = RSub(w.balance, cost),
                  !.positions = Put(w.positions, symbol,
                                    [amount |-> amount, entry_price |-> price]),
                  !.trade_history = Append(w.trade_history,
                      [type |-> "OPEN", symbol |-> symbol, amount |-> amount,
                       price |-> price, cost |-> cost])],
              ok |-> TRUE]

\* SimulatedWallet.close_position: the new wallet and the value returned
ClosePosition(w, symbol, price) ==
    IF symbol \notin DOMAIN w.positions
    THEN [w |-> w, ok |-> FALSE]
    ELSE LET position == w.positions[symbol]
             amount == position.amount
             value == RMul(amount, price)
             profit == RSub(value, RMul(amount, position.entry_price))
         IN  [w |-> [w EXCEPT
                  !.balance = RAdd(w.balance, value),
                  !.positions = Del(w.positions, symbol),
                  !.trade_history = Append(w.trade_history,
                      [type |-> "CLOSE", symbol |-> symbol, amount |-> amount,
                       price |-> price, value |-> value, profit |-> profit])],
              ok |-> TRUE]

InitSimulated ==
    /\ wallet = NewSimulatedWallet
    /\ lastCall = NoCall
    /\ Idle

CallOpenPosition ==
    /\ Len(wallet.trade_history) < MaxHistory
    /\ \E s \in WalletSymbols, a \in CallAmounts, p \in CallPrices :
         LET r == OpenPosition(wallet, s, a, p)
         IN  /\ wallet' = r.w
             /\ lastCall' = [op |-> "open_position", symbol |-> s,
                             amount |-> a, price |-> p, ok |-> r.ok]
    /\ UNCHANGED <<agent, run, pace, sm>>

CallClosePosition ==
    /\ Len(wallet.trade_history) < MaxHistory
    /\ \E s \in WalletSymbols, p \in CallPrices :
         LET r == ClosePosition(wallet, s, p)
         IN  /\ wallet' = r.w
             /\ lastCall' = [op |-> "close_position", symbol |-> s,
                             amount |-> Zero, price |-> p, ok |-> r.ok]
    /\ UNCHANGED <<agent, run, pace, sm>>

NextSimulated == CallOpenPosition \/ CallClosePosition

SpecSimulated == InitSimulated /\ [][NextSimulated]_vars

---------------------------------------------------------------------------
(* Claims about SimulatedWallet *)

\* the profit of the CLOSE entries of a trade history
RECURSIVE C25_ClosedProfit(_)
C25_ClosedProfit(trade_history) ==
    IF trade_history = <<>> THEN Zero
    ELSE RAdd(IF Head(trade_history).type = "CLOSE"
              THEN Head(trade_history).profit ELSE Zero,
              C25_ClosedProfit(Tail(trade_history)))

\* C25: after any sequence of open_position and close_position calls the
\* balance plus what the open positions cost (amount * entry_price each)
\* equals INITIAL_BALANCE plus the profit of the CLOSE entries of
\* trade_history, and the balance is not negative.
C25_ValueConserved ==
    /\ RAdd(wallet.balance,
            C22_CostBasis(DOMAIN wallet.positions, wallet.positions))
         = RAdd(Num(INITIAL_BALANCE), C25_ClosedProfit(wallet.trade_history))
    /\ RGe(wallet.balance, Zero)

---------------------------------------------------------------------------
(* The ledger of execute_trades and a TestWallet given the same trades *)

\* trades applied to the pair
MaxApplied == 3

\* valid trade objects: a known type and symbol, a positive amount
AgreeItems ==
    { TradeObject("BUY", "DOGEUSDT", AmtNum(Num(1))),
      TradeObject("BUY", "DOGEUSDT", AmtNum(Num(3))),
      TradeObject("BUY", "BTCUSDT", AmtNum(Num(1))),
      TradeObject("SELL", "BTCUSDT", AmtNum(Num(1))),
      TradeObject("SELL", "BTCUSDT", AmtNum(Num(2))),
      TradeObject("SELL", "DOGEUSDT", AmtNum(Num(3))) }

\* A wallet, new or after its BTC purchase at 5 USDT, and a state built on a
\* copy of its balance and positions as the drivers build it.
\* run: applied - the trades handed to both so far; ok - whether the ledger
\* took the last one.
InitAgree ==
    /\ wallet \in { NewWallet(Num(INITIAL_BALANCE), Num(TARGET_BALANCE)),
                    InitializeWithBtc(NewWallet(Num(INITIAL_BALANCE),
                                                Num(TARGET_BALANCE)), Num(5)) }
    /\ agent = NewState(wallet.balance, wallet.positions, "text")
    /\ run = [applied |-> 0, ok |-> FALSE]
    /\ lastCall = NoCall
    /\ pace = <<>>
    /\ sm = <<>>

\* One trade of the list: execute_trades validates it and updates the state,
\* wallet.buy / wallet.sell is called with its symbol and amount at the
\* current price.
AgreeTrade ==
    /\ run.applied < MaxApplied
    /\ \E trade \in AgreeItems :
         LET st == [agent EXCEPT
                      !.positions = EnsureAll(agent.positions,
                                              agent.current_prices)]
             l == ApplyTrades(st, <<trade>>)
             r == WalletCall(wallet, Lower(trade.type), trade.symbol,
                             ConvertAmount(trade.amount).v,
                             agent.current_prices[trade.symbol])
         IN  /\ agent' = l.st
             /\ wallet' = r.w
             /\ lastCall' = [op |-> r.call.op, symbol |-> r.call.symbol,
                             amount |-> r.call.amount, price |-> r.call.price,
                             ok |-> r.call.ok]
             /\ run' = [applied |-> run.applied + 1,
                        ok |-> l.valid_trades # <<>>]
    /\ UNCHANGED <<pace, sm>>

NextAgree == AgreeTrade

SpecAgree == InitAgree /\ [][NextAgree]_vars

---------------------------------------------------------------------------
(* Claims about the ledger and the wallet *)

\* C28: the ledger of execute_trades and a TestWallet that start from the
\* same balance and positions and are given the same valid trades at the
\* same prices accept the same trades and end with the same balance and the
\* same amount of every symbol.
C28_LedgerAndWalletAgree ==
    /\ run.ok = lastCall.ok
    /\ agent.available_balance = wallet.balance
    /\ DOMAIN agent.positions = DOMAIN wallet.positions
    /\ \A s \in DOMAIN agent.positions \cap DOMAIN wallet.positions :
          agent.positions[s].amount = wallet.positions[s].amount

===========================================================================
